---- MODULE Spec2Model ----
(***************************************************************************)
(* ReliQuary: the Merkle commitment crate (rust_modules/merkle) and the    *)
(* encryption primitives crate (rust_modules/encryptor).                   *)
(*                                                                         *)
(* Every exported function is a stateless call.  The state of the model is *)
(* the last call (its name, its arguments, what it returned) together with *)
(* what the caller keeps in memory between calls: the last block list it   *)
(* committed to and its root (tree), and the last AES envelope it sealed   *)
(* (env).  Byte vectors (Vec<u8>, &[u8]) are sequences of 0..255.          *)
(*                                                                         *)
(* The external primitives (SHA-256, AES-256-GCM, Kyber-1024, Falcon-1024) *)
(* are stand-ins that keep what the callers rely on: the output lengths,   *)
(* digests and tags that depend on every input byte, and the               *)
(* encrypt/decrypt, sign/open and                                          *)
(* encapsulate/decapsulate relations.  They are computed, not assumed.     *)
(* Where a library draws randomness or judges an encoding, the draw or the *)
(* verdict is an input of the call.                                        *)
(***************************************************************************)
EXTENDS Integers, Sequences, FiniteSets, TLC

VARIABLES op, args, ret, tree, leaf, env

vars == <<op, args, ret, tree, leaf, env>>

(***************************************************************************)
(* Bounds of the model.                                                    *)
(***************************************************************************)
\* Longest block list handed to create_merkle_root.
MaxBlocks == 4
\* Longest proof assembled from loose sibling hashes.
MaxLooseProof == 2
\* Longest plaintext handed to the AES functions.
MaxData == 3

(***************************************************************************)
(* Byte vectors.                                                           *)
(***************************************************************************)
Byte == 0..255

\* n bytes, all equal to b.
Fill(n, b) == [k \in 1..n |-> b]

\* Vec<u8> ordering (Ord for Vec<u8>): lexicographic, a proper prefix is less.
\* a < b when, at the first index k where they part, a has ended or has the
\* smaller byte.
BytesLess(a, b) ==
    \E k \in 1..Len(b) :
        /\ k - 1 <= Len(a)
        /\ \A j \in 1..(k - 1) : a[j] = b[j]
        /\ (k > Len(a) \/ a[k] < b[k])

\* PyResult: Ok(value) or Err(PyValueError(message)); work lists the library
\* calls (decoding, cryptographic) the function made before it returned.
Ok(v, w) == [tag |-> "Ok", val |-> v, work |-> w]
Err(m, w) == [tag |-> "Err", val |-> m, work |-> w]

(***************************************************************************)
(* The digest primitive.  Three residues, each a polynomial in every input *)
(* byte taken in order, are squeezed into a digest of 32 bytes.            *)
(***************************************************************************)
Sha256Len == 32

RECURSIVE PowMod(_, _, _)
PowMod(m, e, p) ==
    IF e = 0 THEN 1
    ELSE IF e % 2 = 1 THEN (m * PowMod(m, e - 1, p)) % p
    ELSE PowMod((m * m) % p, e \div 2, p)

\* The polynomial of bytes[lo..hi] in m, modulo p (Horner's rule).
RECURSIVE Poly(_, _, _, _, _)
Poly(bytes, lo, hi, m, p) ==
    IF hi < lo THEN 0
    ELSE (Poly(bytes, lo, hi - 1, m, p) * m + bytes[hi] + 1) % p

\* The polynomial of seed, bytes[1..hi] in m, modulo p, taken 16 bytes at a
\* time.
RECURSIVE Residue(_, _, _, _, _)
Residue(seed, bytes, hi, m, p) ==
    IF hi = 0 THEN seed
    ELSE (Residue(seed, bytes, ((hi - 1) \div 16) * 16, m, p)
              * PowMod(m, hi - ((hi - 1) \div 16) * 16, p)
          + Poly(bytes, ((hi - 1) \div 16) * 16 + 1, hi, m, p)) % p

Absorb(seed, bytes) ==
    <<Residue(seed[1], bytes, Len(bytes), 263, 32749),
      Residue(seed[2], bytes, Len(bytes), 269, 32719),
      Residue(seed[3], bytes, Len(bytes), 271, 32717)>>

Squeeze(acc, n) ==
    [k \in 1..n |->
        CASE k = 1 -> acc[1] % 256
          [] k = 2 -> acc[1] \div 256
          [] k = 3 -> acc[2] % 256
          [] k = 4 -> acc[2] \div 256
          [] k = 5 -> acc[3] % 256
          [] k = 6 -> acc[3] \div 256
          [] OTHER -> (acc[1] + k * acc[2] + k * k * acc[3]) % 256]

\* Sha256::new(); update(bytes); finalize().to_vec()
Sha256(bytes) == Squeeze(Absorb(<<17, 4242, 911>>, bytes), Sha256Len)

(***************************************************************************)
(* rust_modules/merkle/src/lib.rs                                          *)
(***************************************************************************)

\* The leaf level: every block hashed, in order.
leaf_hashes(data_blocks) ==
    [k \in 1..Len(data_blocks) |-> Sha256(data_blocks[k])]

\* A faulty variant of pair_right: the odd tail is paired with nothing.
pair_right_no_duplicate(hashes, i) ==
    IF i + 1 < Len(hashes) THEN hashes[i + 2] ELSE <<>>

\* The right operand of the pair that starts at (0-based) index i.
pair_right(hashes, i) ==
    IF i + 1 < Len(hashes) THEN hashes[i + 2] ELSE hashes[i + 1]

\* A faulty variant of node_hash: right operand first.
node_hash_reversed(left, right) == Sha256(right \o left)

\* A faulty variant of node_hash: the two operands are hashed smaller first.
node_hash_sorted(left, right) ==
    IF BytesLess(left, right) THEN Sha256(left \o right)
    ELSE Sha256(right \o left)

\* hasher.update(left); hasher.update(right); finalize
node_hash(left, right) == Sha256(left \o right)

\* The inner loop: while i < hashes.len() { ...; i += 2 }
RECURSIVE level_loop(_, _, _)
level_loop(hashes, i, next_level_hashes) ==
    IF i < Len(hashes)
    THEN level_loop(hashes, i + 2,
             Append(next_level_hashes,
                    node_hash(hashes[i + 1], pair_right(hashes, i))))
    ELSE next_level_hashes

\* The outer loop: while hashes.len() > 1 { hashes = next_level_hashes }
RECURSIVE root_loop(_)
root_loop(hashes) ==
    IF Len(hashes) > 1 THEN root_loop(level_loop(hashes, 0, <<>>))
    ELSE hashes

create_merkle_root(data_blocks) ==
    IF Len(data_blocks) = 0 THEN Ok(<<>>, <<>>)
    ELSE Ok(root_loop(leaf_hashes(data_blocks))[1], <<>>)

\* A faulty variant of proof_step: the comparison is turned round.
proof_step_greater(current_hash, p_hash) ==
    IF BytesLess(p_hash, current_hash) THEN Sha256(current_hash \o p_hash)
    ELSE Sha256(p_hash \o current_hash)

\* A faulty variant of proof_step: always current hash first.
proof_step_positional(current_hash, p_hash) ==
    Sha256(current_hash \o p_hash)

\* The body of `for p_hash in proof`.
proof_step(current_hash, p_hash) ==
    IF BytesLess(current_hash, p_hash) THEN Sha256(current_hash \o p_hash)
    ELSE Sha256(p_hash \o current_hash)

RECURSIVE proof_loop(_, _, _)
proof_loop(current_hash, proof, k) ==
    IF k > Len(proof) THEN current_hash
    ELSE proof_loop(proof_step(current_hash, proof[k]), proof, k + 1)

verify_merkle_proof(data_block, proof, root) ==
    Ok(proof_loop(Sha256(data_block), proof, 1) = root, <<>>)

(***************************************************************************)
(* rust_modules/encryptor/src/lib.rs: the primitives it calls.             *)
(***************************************************************************)
AesKeyLen == 32
AesNonceLen == 12
AesTagLen == 16
KYBER_PUBLICKEYBYTES == 1568
KYBER_SECRETKEYBYTES == 3168
KYBER_CIPHERTEXTBYTES == 1568
KyberSharedSecretLen == 32
FALCON_PUBLICKEYBYTES == 1793
FALCON_SECRETKEYBYTES == 2305

\* What a library call hands back: a value, or a failure.
LibOk(v) == [ok |-> TRUE, val |-> v]
LibErr == [ok |-> FALSE, val |-> <<>>]

\* AES-256-GCM: the payload is masked with a key stream drawn from the key
\* and the nonce, and followed by a 16-byte tag over key, nonce and masked
\* payload.
KeyStream(key, nonce, n) == Squeeze(Absorb(<<5, 55, 555>>, key \o nonce), n)

AeadTag(key, nonce, body) ==
    Squeeze(Absorb(<<7, 77, 777>>, key \o nonce \o body), AesTagLen)

\* cipher.encrypt(nonce, data)
AeadEncrypt(key, nonce, data) ==
    LET ks == KeyStream(key, nonce, Len(data))
        body == [k \in 1..Len(data) |-> (data[k] + ks[k]) % 256]
    IN LibOk(body \o AeadTag(key, nonce, body))

\* cipher.decrypt(nonce, ciphertext_with_tag): the plaintext if the tag
\* verifies, else aead::Error.
AeadDecrypt(key, nonce, ciphertext_with_tag) ==
    IF Len(ciphertext_with_tag) < AesTagLen THEN LibErr
    ELSE LET n == Len(ciphertext_with_tag) - AesTagLen
             body == SubSeq(ciphertext_with_tag, 1, n)
             tag == SubSeq(ciphertext_with_tag, n + 1, n + AesTagLen)
             ks == KeyStream(key, nonce, n)
         IN IF tag = AeadTag(key, nonce, body)
            THEN LibOk([k \in 1..n |-> (body[k] + 256 - ks[k]) % 256])
            ELSE LibErr

\* T::from_bytes of pqcrypto_traits: the bytes must have the type's length;
\* accepts is the library's verdict on their encoding.
from_bytes(bytes, size, accepts) ==
    IF Len(bytes) = size /\ accepts THEN LibOk(bytes) ELSE LibErr

\* Kyber-1024.  A key pair shares its fill byte; the ciphertext carries the
\* coins; the shared secret is drawn from the key's byte and the coins.
KyberKeypair(s) ==
    <<Fill(KYBER_PUBLICKEYBYTES, s), Fill(KYBER_SECRETKEYBYTES, s)>>

KyberSecret(keybyte, coins) ==
    Squeeze(Absorb(<<9, 99, 999>>, <<keybyte, coins>>), KyberSharedSecretLen)

KyberEncapsulate(pk, coins) ==
    <<KyberSecret(pk[2], coins),
      [k \in 1..KYBER_CIPHERTEXTBYTES |-> IF k = 1 THEN coins ELSE pk[k]]>>

KyberDecapsulate(ct, sk) == KyberSecret(sk[2], ct[1])

\* Falcon-1024.  A signed message is the message followed by a 2-byte
\* signature drawn from the signer's key byte and the message.
FalconKeypair(s) ==
    <<Fill(FALCON_PUBLICKEYBYTES, s), Fill(FALCON_SECRETKEYBYTES, s)>>

FalconSignature(keybyte, msg) ==
    Squeeze(Absorb(<<11, 111, 1111>>, <<keybyte>> \o msg), 2)

FalconSign(msg, sk) == msg \o FalconSignature(sk[1], msg)

\* falcon::open: the embedded message if the signature verifies.
FalconOpen(signed_msg, pk) ==
    IF Len(signed_msg) < 2 THEN LibErr
    ELSE LET n == Len(signed_msg) - 2
             m == SubSeq(signed_msg, 1, n)
         IN IF SubSeq(signed_msg, n + 1, n + 2) = FalconSignature(pk[1], m)
            THEN LibOk(m) ELSE LibErr

(***************************************************************************)
(* rust_modules/encryptor/src/lib.rs: the exported functions.              *)
(***************************************************************************)

\* rng_nonce is what Aes256Gcm::generate_nonce(&mut OsRng) draws.
encrypt_data(data, key_bytes, rng_nonce) ==
    IF Len(key_bytes) # AesKeyLen
    THEN Err(<<"Key must be 32 bytes for AES-256">>, <<>>)
    ELSE LET c == AeadEncrypt(key_bytes, rng_nonce, data) IN
         IF c.ok
         THEN Ok(<<c.val, rng_nonce>>,
                 <<"Aes256Gcm::new", "generate_nonce", "encrypt">>)
         ELSE Err(<<"Encryption error: {:?}">>,
                  <<"Aes256Gcm::new", "generate_nonce", "encrypt">>)

encrypt_data_with_nonce(data, key_bytes, nonce_bytes) ==
    IF Len(key_bytes) # AesKeyLen
    THEN Err(<<"Key must be 32 bytes">>, <<>>)
    ELSE IF Len(nonce_bytes) # AesNonceLen
    THEN Err(<<"Nonce must be 12 bytes">>, <<>>)
    ELSE LET c == AeadEncrypt(key_bytes, nonce_bytes, data) IN
         IF c.ok
         THEN Ok(c.val, <<"Aes256Gcm::new", "encrypt">>)
         ELSE Err(<<"Encryption error: {:?}">>,
                  <<"Aes256Gcm::new", "encrypt">>)

\* A faulty variant of decrypt_data: the key is checked against the AES-128
\* size.
decrypt_data_key16(ciphertext_with_tag, nonce, key_bytes) ==
    IF Len(key_bytes) # 16
    THEN Err(<<"Key must be 32 bytes">>, <<>>)
    ELSE IF Len(nonce) # AesNonceLen
    THEN Err(<<"Nonce must be 12 bytes">>, <<>>)
    ELSE LET p == AeadDecrypt(key_bytes, nonce, ciphertext_with_tag) IN
         IF p.ok THEN Ok(p.val, <<"Aes256Gcm::new", "decrypt">>)
         ELSE Err(<<"Decryption failed: {:?}">>,
                  <<"Aes256Gcm::new", "decrypt">>)

\* A faulty variant of decrypt_data: a failed tag check hands back the bytes
\* before the tag.
decrypt_data_leaky(ciphertext_with_tag, nonce, key_bytes) ==
    IF Len(key_bytes) # AesKeyLen
    THEN Err(<<"Key must be 32 bytes">>, <<>>)
    ELSE IF Len(nonce) # AesNonceLen
    THEN Err(<<"Nonce must be 12 bytes">>, <<>>)
    ELSE LET p == AeadDecrypt(key_bytes, nonce, ciphertext_with_tag) IN
         IF p.ok THEN Ok(p.val, <<"Aes256Gcm::new", "decrypt">>)
         ELSE Ok(SubSeq(ciphertext_with_tag, 1,
                        Len(ciphertext_with_tag) - AesTagLen),
                 <<"Aes256Gcm::new", "decrypt">>)

\* A faulty variant of decrypt_data: the nonce is checked after the cipher is
\* keyed.
decrypt_data_late_check(ciphertext_with_tag, nonce, key_bytes) ==
    IF Len(key_bytes) # AesKeyLen
    THEN Err(<<"Key must be 32 bytes">>, <<>>)
    ELSE IF Len(nonce) # AesNonceLen
    THEN Err(<<"Nonce must be 12 bytes">>, <<"Aes256Gcm::new">>)
    ELSE LET p == AeadDecrypt(key_bytes, nonce, ciphertext_with_tag) IN
         IF p.ok THEN Ok(p.val, <<"Aes256Gcm::new", "decrypt">>)
         ELSE Err(<<"Decryption failed: {:?}">>,
                  <<"Aes256Gcm::new", "decrypt">>)

decrypt_data(ciphertext_with_tag, nonce, key_bytes) ==
    IF Len(key_bytes) # AesKeyLen
    THEN Err(<<"Key must be 32 bytes">>, <<>>)
    ELSE IF Len(nonce) # AesNonceLen
    THEN Err(<<"Nonce must be 12 bytes">>, <<>>)
    ELSE LET p == AeadDecrypt(key_bytes, nonce, ciphertext_with_tag) IN
         IF p.ok THEN Ok(p.val, <<"Aes256Gcm::new", "decrypt">>)
         ELSE Err(<<"Decryption failed: {:?}">>,
                  <<"Aes256Gcm::new", "decrypt">>)

decrypt_data_with_nonce(ciphertext_with_tag, key_bytes, nonce_bytes) ==
    decrypt_data(ciphertext_with_tag, nonce_bytes, key_bytes)

\* s is what kyber::keypair() draws.
generate_kyber_keys(s) == Ok(KyberKeypair(s), <<"kyber::keypair">>)

\* accepts is the library's verdict on the encoding of pk_bytes; coins is
\* what kyber::encapsulate draws.
encapsulate_kyber(pk_bytes, accepts, coins) ==
    IF Len(pk_bytes) # KYBER_PUBLICKEYBYTES
    THEN Err(<<"Invalid public key length. Expected {}, got {}",
               KYBER_PUBLICKEYBYTES, Len(pk_bytes)>>, <<>>)
    ELSE LET pk == from_bytes(pk_bytes, KYBER_PUBLICKEYBYTES, accepts) IN
         IF ~pk.ok
         THEN Err(<<"Invalid public key: {:?}">>, <<"PublicKey::from_bytes">>)
         ELSE Ok(KyberEncapsulate(pk.val, coins),
                 <<"PublicKey::from_bytes", "kyber::encapsulate">>)

decapsulate_kyber(ct_bytes, sk_bytes, accepts_ct, accepts_sk) ==
    IF Len(ct_bytes) # KYBER_CIPHERTEXTBYTES
    THEN Err(<<"Invalid ciphertext length. Expected {}, got {}",
               KYBER_CIPHERTEXTBYTES, Len(ct_bytes)>>, <<>>)
    ELSE IF Len(sk_bytes) # KYBER_SECRETKEYBYTES
    THEN Err(<<"Invalid secret key length. Expected {}, got {}",
               KYBER_SECRETKEYBYTES, Len(sk_bytes)>>, <<>>)
    ELSE LET ct == from_bytes(ct_bytes, KYBER_CIPHERTEXTBYTES, accepts_ct)
             sk == from_bytes(sk_bytes, KYBER_SECRETKEYBYTES, accepts_sk)
         IN IF ~ct.ok
            THEN Err(<<"Invalid ciphertext: {:?}">>,
                     <<"Ciphertext::from_bytes">>)
            ELSE IF ~sk.ok
            THEN Err(<<"Invalid secret key: {:?}">>,
                     <<"Ciphertext::from_bytes", "SecretKey::from_bytes">>)
            ELSE Ok(KyberDecapsulate(ct.val, sk.val),
                    <<"Ciphertext::from_bytes", "SecretKey::from_bytes",
                      "kyber::decapsulate">>)

\* s is what falcon::keypair() draws.
generate_falcon_keys(s) == Ok(FalconKeypair(s), <<"falcon::keypair">>)

sign_falcon(msg, sk_bytes, accepts) ==
    IF Len(sk_bytes) # FALCON_SECRETKEYBYTES
    THEN Err(<<"Invalid secret key length. Expected {}, got {}",
               FALCON_SECRETKEYBYTES, Len(sk_bytes)>>, <<>>)
    ELSE LET sk == from_bytes(sk_bytes, FALCON_SECRETKEYBYTES, accepts) IN
         IF ~sk.ok
         THEN Err(<<"Invalid secret key: {:?}">>, <<"SecretKey::from_bytes">>)
         ELSE Ok(FalconSign(msg, sk.val),
                 <<"SecretKey::from_bytes", "falcon::sign">>)

\* A faulty variant of verify_result: a signature that does not open is an
\* error.
verify_result_strict(opened, msg) ==
    IF opened.ok THEN Ok(opened.val = msg, <<>>)
    ELSE Err(<<"Invalid signature: {:?}">>, <<>>)

\* match falcon::open(..) { Ok(recovered_msg) => Ok(recovered_msg == msg),
\*                          Err(_) => Ok(false) }
verify_result(opened, msg) ==
    IF opened.ok THEN Ok(opened.val = msg, <<>>) ELSE Ok(FALSE, <<>>)

\* accepts_pk and accepts_sm are the library's verdicts on the encodings of
\* pk_bytes and sig_bytes (SignedMessage::from_bytes takes any length).
verify_falcon(msg, sig_bytes, pk_bytes, accepts_pk, accepts_sm) ==
    IF Len(pk_bytes) # FALCON_PUBLICKEYBYTES
    THEN Err(<<"Invalid public key length. Expected {}, got {}",
               FALCON_PUBLICKEYBYTES, Len(pk_bytes)>>, <<>>)
    ELSE LET pk == from_bytes(pk_bytes, FALCON_PUBLICKEYBYTES, accepts_pk)
             sm == from_bytes(sig_bytes, Len(sig_bytes), accepts_sm)
         IN IF ~pk.ok
            THEN Err(<<"Invalid public key: {:?}">>,
                     <<"PublicKey::from_bytes">>)
            ELSE IF ~sm.ok
            THEN Err(<<"Invalid signature: {:?}">>,
                     <<"PublicKey::from_bytes", "SignedMessage::from_bytes">>)
            ELSE LET r == verify_result(FalconOpen(sm.val, pk.val), msg) IN
                 [r EXCEPT !.work = <<"PublicKey::from_bytes",
                                      "SignedMessage::from_bytes",
                                      "falcon::open">>]

(***************************************************************************)
(* Inputs of the Merkle calls.                                             *)
(***************************************************************************)
Blocks == {<<>>, <<97>>, <<98>>}

BlockLists == UNION {[1..n -> Blocks] : n \in 0..MaxBlocks}

NoTree == [blocks |-> <<>>, root |-> <<>>, built |-> FALSE]

\* The sibling, at one level, of the node at (1-based) position k.
Sibling(hashes, k) ==
    IF k % 2 = 0 THEN hashes[k - 1]
    ELSE IF k + 1 <= Len(hashes) THEN hashes[k + 1] ELSE hashes[k]

\* The proof of leaf k made of its positional siblings, bottom to top.
RECURSIVE SiblingPath(_, _)
SiblingPath(hashes, k) ==
    IF Len(hashes) <= 1 THEN <<>>
    ELSE <<Sibling(hashes, k)>>
           \o SiblingPath(level_loop(hashes, 0, <<>>), (k + 1) \div 2)

PositionalProof(blocks, k) == SiblingPath(leaf_hashes(blocks), k)

\* Hashes of the wrong length: one byte short, one byte long, empty.
BadHashes == {SubSeq(Sha256(<<97>>), 1, Sha256Len - 1),
              Append(Sha256(<<98>>), 0), <<>>}

\* Sibling hashes a caller may put in a proof it did not take from a tree.
SiblingPool == {Sha256(b) : b \in Blocks} \cup BadHashes

LooseProofs == UNION {[1..n -> SiblingPool] : n \in 0..MaxLooseProof}

TwoBlockRoots == {create_merkle_root(<<a, b>>).val : a, b \in Blocks}

(***************************************************************************)
(* The state machine.  A behaviour is a caller's short session: one call,  *)
(* or a call that produces a value followed by a call that consumes it.    *)
(* The functions keep nothing between calls, so longer sessions reach no   *)
(* result that a short one does not.                                       *)
(***************************************************************************)
NoEnv == [data |-> <<>>, key |-> <<>>, nonce |-> <<>>, ct |-> <<>>,
          by |-> "none", sealed |-> FALSE]

Init ==
    /\ op = "none"
    /\ args = <<>>
    /\ ret = Ok(<<>>, <<>>)
    /\ tree = NoTree
    /\ leaf = 0
    /\ env = NoEnv

\* create_merkle_root(data_blocks); the caller keeps the list and its root.
CreateMerkleRoot ==
    /\ op = "none"
    /\ \E data_blocks \in BlockLists :
        LET r == create_merkle_root(data_blocks) IN
        /\ op' = "create_merkle_root"
        /\ args' = [data_blocks |-> data_blocks]
        /\ ret' = r
        /\ tree' = [blocks |-> data_blocks, root |-> r.val, built |-> TRUE]
        /\ UNCHANGED <<leaf, env>>

\* verify_merkle_proof on a block, a proof and a root that come from no tree.
VerifyMerkleProof ==
    /\ op = "none"
    /\ \E data_block \in Blocks :
         \E proof \in LooseProofs :
           \E root \in TwoBlockRoots \cup BadHashes \cup {Sha256(data_block)} :
            /\ op' = "verify_merkle_proof"
            /\ args' = [data_block |-> data_block, proof |-> proof,
                        root |-> root]
            /\ ret' = verify_merkle_proof(data_block, proof, root)
            /\ UNCHANGED <<tree, leaf, env>>

\* verify_merkle_proof on leaf k of the committed list, with the proof made
\* of the leaf's positional siblings.
VerifyLeafProof ==
    /\ op = "create_merkle_root"
    /\ \E k \in 1..Len(tree.blocks) :
         LET proof == PositionalProof(tree.blocks, k) IN
         \E root \in BadHashes \cup {tree.root, Sha256(tree.blocks[k])} :
            /\ op' = "verify_merkle_proof"
            /\ args' = [data_block |-> tree.blocks[k], proof |-> proof,
                        root |-> root]
            /\ ret' = verify_merkle_proof(tree.blocks[k], proof, root)
            /\ leaf' = k
            /\ UNCHANGED <<tree, env>>

NextMerkle == CreateMerkleRoot \/ VerifyMerkleProof \/ VerifyLeafProof

SpecMerkle == Init /\ [][NextMerkle]_vars

(***************************************************************************)
(* Inputs of the encryptor calls.                                          *)
(***************************************************************************)
\* b"hello"
Message == <<104, 101, 108, 108, 111>>

Plaintexts == {SubSeq(Message, 1, n) : n \in 0..MaxData}

\* A length, and around it: empty, one byte short, one byte long.
Lengths(n) == {0, n - 1, n, n + 1}

KeyInputs == {Fill(n, b) : n \in Lengths(AesKeyLen), b \in {0, 1}}

NonceInputs == {Fill(n, b) : n \in Lengths(AesNonceLen), b \in {0, 2}}

GoodKeys == {k \in KeyInputs : Len(k) = AesKeyLen}

GoodNonces == {n \in NonceInputs : Len(n) = AesNonceLen}

\* bytes with bit b of byte k flipped.
FlipBit(bytes, k, b) ==
    [bytes EXCEPT ![k] =
        IF (bytes[k] \div (2 ^ b)) % 2 = 1 THEN bytes[k] - 2 ^ b
        ELSE bytes[k] + 2 ^ b]

Flips(bytes) == {FlipBit(bytes, k, b) : k \in 1..Len(bytes), b \in 0..7}

\* Ciphertexts that come from no encryption.
LooseCiphertexts == {<<>>, Fill(AesTagLen - 1, 0), Fill(AesTagLen, 0)}

Seeds == {1, 2}

Coins == {3, 5}

KyberPkInputs ==
    {Fill(n, s) : n \in Lengths(KYBER_PUBLICKEYBYTES), s \in Seeds}

KyberSkInputs ==
    {Fill(n, s) : n \in Lengths(KYBER_SECRETKEYBYTES), s \in Seeds}

KyberCtInputs ==
    {Fill(n, c) : n \in Lengths(KYBER_CIPHERTEXTBYTES), c \in Coins}

FalconPkInputs ==
    {Fill(n, s) : n \in Lengths(FALCON_PUBLICKEYBYTES), s \in Seeds}

FalconSkInputs ==
    {Fill(n, s) : n \in Lengths(FALCON_SECRETKEYBYTES), s \in Seeds}

Messages == {<<>>, <<104>>, <<104, 105>>}

\* Signed messages: what sign produces, one of them with a bit flipped, and
\* two that are too short to hold a signature.
SignedInputs ==
    {FalconSign(m, FalconKeypair(s)[2]) : m \in Messages, s \in Seeds}
    \cup {FlipBit(FalconSign(<<104>>, FalconKeypair(1)[2]), 1, 0), <<>>, <<7>>}

(***************************************************************************)
(* The encryptor calls.                                                    *)
(***************************************************************************)
EncryptData ==
    /\ op = "none"
    /\ \E data \in Plaintexts, key_bytes \in KeyInputs, rng \in GoodNonces :
        LET r == encrypt_data(data, key_bytes, rng) IN
        /\ op' = "encrypt_data"
        /\ args' = [data |-> data, key_bytes |-> key_bytes]
        /\ ret' = r
        /\ env' = IF r.tag = "Ok"
                  THEN [data |-> data, key |-> key_bytes, nonce |-> r.val[2],
                        ct |-> r.val[1], by |-> "encrypt_data",
                        sealed |-> TRUE]
                  ELSE NoEnv
        /\ UNCHANGED <<tree, leaf>>

EncryptDataWithNonce ==
    /\ op = "none"
    /\ \E data \in Plaintexts, key_bytes \in KeyInputs,
          nonce_bytes \in NonceInputs :
        LET r == encrypt_data_with_nonce(data, key_bytes, nonce_bytes) IN
        /\ op' = "encrypt_data_with_nonce"
        /\ args' = [data |-> data, key_bytes |-> key_bytes,
                    nonce_bytes |-> nonce_bytes]
        /\ ret' = r
        /\ env' = IF r.tag = "Ok"
                  THEN [data |-> data, key |-> key_bytes,
                        nonce |-> nonce_bytes, ct |-> r.val,
                        by |-> "encrypt_data_with_nonce", sealed |-> TRUE]
                  ELSE NoEnv
        /\ UNCHANGED <<tree, leaf>>

\* decrypt_data on inputs that come from no encryption.
DecryptData ==
    /\ op = "none"
    /\ \E ciphertext_with_tag \in LooseCiphertexts, nonce \in NonceInputs,
          key_bytes \in KeyInputs :
        /\ op' = "decrypt_data"
        /\ args' = [ciphertext_with_tag |-> ciphertext_with_tag,
                    nonce |-> nonce, key_bytes |-> key_bytes]
        /\ ret' = decrypt_data(ciphertext_with_tag, nonce, key_bytes)
        /\ UNCHANGED <<tree, leaf, env>>

\* decrypt_data on the sealed envelope, as it is or with one bit of the
\* ciphertext-with-tag flipped, under any well-sized key and nonce.
DecryptEnvelope ==
    /\ op \in {"encrypt_data", "encrypt_data_with_nonce"}
    /\ env.sealed
    /\ \E ciphertext_with_tag \in {env.ct} \cup Flips(env.ct),
          nonce \in GoodNonces, key_bytes \in GoodKeys :
        /\ op' = "decrypt_data"
        /\ args' = [ciphertext_with_tag |-> ciphertext_with_tag,
                    nonce |-> nonce, key_bytes |-> key_bytes]
        /\ ret' = decrypt_data(ciphertext_with_tag, nonce, key_bytes)
        /\ UNCHANGED <<tree, leaf, env>>

DecryptDataWithNonce ==
    /\ op \in {"encrypt_data", "encrypt_data_with_nonce"}
    /\ env.sealed
    /\ \E nonce_bytes \in NonceInputs, key_bytes \in KeyInputs :
        /\ op' = "decrypt_data_with_nonce"
        /\ args' = [ciphertext_with_tag |-> env.ct, key_bytes |-> key_bytes,
                    nonce_bytes |-> nonce_bytes]
        /\ ret' = decrypt_data_with_nonce(env.ct, key_bytes, nonce_bytes)
        /\ UNCHANGED <<tree, leaf, env>>

GenerateKyberKeys ==
    /\ op = "none"
    /\ \E s \in Seeds :
        /\ op' = "generate_kyber_keys"
        /\ args' = <<>>
        /\ ret' = generate_kyber_keys(s)
        /\ UNCHANGED <<tree, leaf, env>>

EncapsulateKyber ==
    /\ op = "none"
    /\ \E pk_bytes \in KyberPkInputs, accepts \in BOOLEAN, coins \in Coins :
        /\ op' = "encapsulate_kyber"
        /\ args' = [pk_bytes |-> pk_bytes, accepts |-> accepts]
        /\ ret' = encapsulate_kyber(pk_bytes, accepts, coins)
        /\ UNCHANGED <<tree, leaf, env>>

DecapsulateKyber ==
    /\ op = "none"
    /\ \E ct_bytes \in KyberCtInputs, sk_bytes \in KyberSkInputs,
          accepts_ct \in BOOLEAN, accepts_sk \in BOOLEAN :
        /\ op' = "decapsulate_kyber"
        /\ args' = [ct_bytes |-> ct_bytes, sk_bytes |-> sk_bytes,
                    accepts_ct |-> accepts_ct, accepts_sk |-> accepts_sk]
        /\ ret' = decapsulate_kyber(ct_bytes, sk_bytes, accepts_ct, accepts_sk)
        /\ UNCHANGED <<tree, leaf, env>>

GenerateFalconKeys ==
    /\ op = "none"
    /\ \E s \in Seeds :
        /\ op' = "generate_falcon_keys"
        /\ args' = <<>>
        /\ ret' = generate_falcon_keys(s)
        /\ UNCHANGED <<tree, leaf, env>>

SignFalcon ==
    /\ op = "none"
    /\ \E msg \in Messages, sk_bytes \in FalconSkInputs, accepts \in BOOLEAN :
        /\ op' = "sign_falcon"
        /\ args' = [msg |-> msg, sk_bytes |-> sk_bytes, accepts |-> accepts]
        /\ ret' = sign_falcon(msg, sk_bytes, accepts)
        /\ UNCHANGED <<tree, leaf, env>>

VerifyFalcon ==
    /\ op = "none"
    /\ \E msg \in Messages, sig_bytes \in SignedInputs,
          pk_bytes \in FalconPkInputs, accepts_pk \in BOOLEAN,
          accepts_sm \in BOOLEAN :
        /\ op' = "verify_falcon"
        /\ args' = [msg |-> msg, sig_bytes |-> sig_bytes,
                    pk_bytes |-> pk_bytes, accepts_pk |-> accepts_pk,
                    accepts_sm |-> accepts_sm]
        /\ ret' = verify_falcon(msg, sig_bytes, pk_bytes, accepts_pk,
                                accepts_sm)
        /\ UNCHANGED <<tree, leaf, env>>

Next ==
    \/ EncryptData
    \/ EncryptDataWithNonce
    \/ DecryptData
    \/ DecryptEnvelope
    \/ DecryptDataWithNonce
    \/ GenerateKyberKeys
    \/ EncapsulateKyber
    \/ DecapsulateKyber
    \/ GenerateFalconKeys
    \/ SignFalcon
    \/ VerifyFalcon

Spec == Init /\ [][Next]_vars

(***************************************************************************)
(* Merkle commitment: what is checked of it.                               *)
(***************************************************************************)

\* The reference construction: one level from the one below it, pair j being
\* entries 2j-1 and 2j, the last entry of an odd level paired with itself.
RefLevel(hs) ==
    [j \in 1..((Len(hs) + 1) \div 2) |->
        Sha256(hs[2 * j - 1]
               \o (IF 2 * j <= Len(hs) THEN hs[2 * j] ELSE hs[2 * j - 1]))]

RECURSIVE RefReduce(_)
RefReduce(hs) == IF Len(hs) = 1 THEN hs[1] ELSE RefReduce(RefLevel(hs))

RefRoot(blocks) ==
    IF blocks = <<>> THEN <<>>
    ELSE RefReduce([k \in 1..Len(blocks) |-> Sha256(blocks[k])])

\* C1: create_merkle_root returns the root of the reference construction: the
\* empty byte sequence for no blocks, the leaf hash for one block, and for
\* [A,B,C] the hash H(H(H(A)++H(B)) ++ H(H(C)++H(C))).
C1_RootIsReference ==
    op = "create_merkle_root" =>
        LET b == args.data_blocks IN
        /\ ret.tag = "Ok"
        /\ ret.val = RefRoot(b)
        /\ Len(b) = 0 => ret.val = <<>>
        /\ Len(b) = 1 => ret.val = Sha256(b[1])
        /\ Len(b) = 3 =>
             ret.val = Sha256(Sha256(Sha256(b[1]) \o Sha256(b[2]))
                              \o Sha256(Sha256(b[3]) \o Sha256(b[3])))

C1_Witness ==
    /\ op = "create_merkle_root"
    /\ Len(args.data_blocks) = 3
    /\ args.data_blocks[1] # args.data_blocks[2]
    /\ args.data_blocks[2] # args.data_blocks[3]
    /\ Len(ret.val) = Sha256Len

\* The fold of the claim: at each step the bytewise smaller of the current
\* hash and the sibling goes first.
SmallerFirst(a, b) == IF BytesLess(b, a) THEN b \o a ELSE a \o b

RECURSIVE SortedFold(_, _)
SortedFold(h, proof) ==
    IF proof = <<>> THEN h
    ELSE SortedFold(Sha256(SmallerFirst(h, Head(proof))), Tail(proof))

\* C2: verify_merkle_proof never fails, and answers true exactly when the
\* smaller-first fold of the proof over the leaf hash equals the root; with an
\* empty proof, exactly when the root is the leaf hash.
C2_VerifyIsSortedFold ==
    op = "verify_merkle_proof" =>
        /\ ret.tag = "Ok"
        /\ ret.val = (SortedFold(Sha256(args.data_block), args.proof)
                        = args.root)
        /\ args.proof = <<>> =>
             ret.val = (args.root = Sha256(args.data_block))

\* A proof step that puts the sibling first is taken and the proof accepted.
C2_Witness ==
    /\ op = "verify_merkle_proof"
    /\ Len(args.proof) >= 1
    /\ BytesLess(args.proof[1], Sha256(args.data_block))
    /\ ret.val = TRUE

\* The path of leaf k is ordered when, at every level, the left operand of
\* the pair on the path is bytewise less than or equal to the right one.
RECURSIVE PathOrdered(_, _)
PathOrdered(hashes, k) ==
    IF Len(hashes) <= 1 THEN TRUE
    ELSE /\ IF k % 2 = 0 THEN ~BytesLess(hashes[k], hashes[k - 1])
            ELSE ~BytesLess(Sibling(hashes, k), hashes[k])
         /\ PathOrdered(level_loop(hashes, 0, <<>>), (k + 1) \div 2)

\* C3: the proof made of a leaf's positional siblings is accepted against the
\* root of the list when the leaf's path is ordered, and rejected when at some
\* level the left operand is bytewise greater than the right one; for [A,B]
\* the proof [H(B)] of A verifies iff H(A) <= H(B).
C3_AgreeIffPathOrdered ==
    (op = "verify_merkle_proof" /\ leaf > 0 /\ args.root = tree.root) =>
        /\ ret.val = PathOrdered(leaf_hashes(tree.blocks), leaf)
        /\ (Len(tree.blocks) = 2 /\ leaf = 1) =>
             (ret.val = ~BytesLess(Sha256(tree.blocks[2]),
                                   Sha256(tree.blocks[1])))

\* A positional proof of a list of three or more blocks is rejected against
\* the list's own root.
C3_Witness ==
    /\ op = "verify_merkle_proof"
    /\ leaf > 0
    /\ Len(tree.blocks) >= 3
    /\ args.root = tree.root
    /\ ret.val = FALSE

Swap(blocks, i, j) ==
    [k \in 1..Len(blocks) |->
        IF k = i THEN blocks[j] ELSE IF k = j THEN blocks[i] ELSE blocks[k]]

\* C4: swapping two distinct blocks of the list changes the root.
C4_SwapChangesRoot ==
    op = "create_merkle_root" =>
        \A i, j \in 1..Len(args.data_blocks) :
            (i < j /\ args.data_blocks[i] # args.data_blocks[j]) =>
                create_merkle_root(Swap(args.data_blocks, i, j)).val # ret.val

C4_Witness ==
    /\ op = "create_merkle_root"
    /\ Len(args.data_blocks) = MaxBlocks
    /\ args.data_blocks[1] # args.data_blocks[MaxBlocks]

\* C9: verify_merkle_proof answers a root or a sibling hash that is not 32
\* bytes long with a length error.
C9_BadHashLengthIsError ==
    (/\ op = "verify_merkle_proof"
     /\ \/ Len(args.root) # Sha256Len
        \/ \E k \in 1..Len(args.proof) : Len(args.proof[k]) # Sha256Len)
    => ret.tag = "Err"

\* C10: a list of odd length n >= 3 has the root of the list with its last
\* block repeated; for n = 1 the two roots differ.
C10_DuplicateTailCollision ==
    op = "create_merkle_root" =>
        LET b == args.data_blocks
            longer == Append(b, b[Len(b)])
        IN /\ (Len(b) % 2 = 1 /\ Len(b) >= 3) =>
                ret.val = create_merkle_root(longer).val
           /\ Len(b) = 1 => ret.val # create_merkle_root(longer).val

C10_Witness ==
    /\ op = "create_merkle_root"
    /\ Len(args.data_blocks) = 3
    /\ args.data_blocks[3] # args.data_blocks[2]
    /\ ret.val = create_merkle_root(Append(args.data_blocks,
                                           args.data_blocks[3])).val

(***************************************************************************)
(* Encryption primitives: what is checked of them.                         *)
(***************************************************************************)

\* C5: what encrypt_data or encrypt_data_with_nonce sealed under a 32-byte
\* key (and a 12-byte nonce) is opened by decrypt_data, under the same key and
\* nonce, to exactly the plaintext.
C5_RoundTrip ==
    /\ (op = "encrypt_data" /\ Len(args.key_bytes) = AesKeyLen) =>
          (ret.tag = "Ok" /\ env.sealed /\ Len(ret.val[2]) = AesNonceLen)
    /\ (/\ op = "encrypt_data_with_nonce"
        /\ Len(args.key_bytes) = AesKeyLen
        /\ Len(args.nonce_bytes) = AesNonceLen) =>
          (ret.tag = "Ok" /\ env.sealed)
    /\ (/\ op = "decrypt_data"
        /\ env.sealed
        /\ args.ciphertext_with_tag = env.ct
        /\ args.nonce = env.nonce
        /\ args.key_bytes = env.key) =>
          (ret.tag = "Ok" /\ ret.val = env.data)

C5_Witness ==
    /\ op = "decrypt_data"
    /\ env.sealed
    /\ env.by = "encrypt_data"
    /\ Len(env.data) = MaxData
    /\ args.ciphertext_with_tag = env.ct
    /\ env.ct # env.data \o SubSeq(env.ct, MaxData + 1, Len(env.ct))
    /\ ret.tag = "Ok"
    /\ ret.val = env.data

\* C6: decrypt_data, given a well-sized key and nonce and the sealed
\* ciphertext-with-tag with a bit changed, or another key, or another nonce,
\* returns the decryption failure and no plaintext.
C6_TamperFails ==
    (/\ op = "decrypt_data"
     /\ env.sealed
     /\ Len(args.key_bytes) = AesKeyLen
     /\ Len(args.nonce) = AesNonceLen
     /\ \/ args.ciphertext_with_tag # env.ct
        \/ args.key_bytes # env.key
        \/ args.nonce # env.nonce)
    => (ret.tag = "Err" /\ ret.val = <<"Decryption failed: {:?}">>)

\* A bit of the payload (not of the tag) is flipped, key and nonce are right.
C6_Witness ==
    /\ op = "decrypt_data"
    /\ env.sealed
    /\ Len(env.data) >= 1
    /\ args.key_bytes = env.key
    /\ args.nonce = env.nonce
    /\ args.ciphertext_with_tag[1] # env.ct[1]
    /\ ret.tag = "Err"

\* The length errors of the code, by input.
KeyLengthError ==
    IF op = "encrypt_data" THEN <<"Key must be 32 bytes for AES-256">>
    ELSE <<"Key must be 32 bytes">>

NonceLengthError == <<"Nonce must be 12 bytes">>

PkLengthError(size, bytes) ==
    <<"Invalid public key length. Expected {}, got {}", size, Len(bytes)>>

SkLengthError(size, bytes) ==
    <<"Invalid secret key length. Expected {}, got {}", size, Len(bytes)>>

CtLengthError(size, bytes) ==
    <<"Invalid ciphertext length. Expected {}, got {}", size, Len(bytes)>>

\* The call failed with this error before any library call.
FailsAtOnce(error) == ret.tag = "Err" /\ ret.val = error /\ ret.work = <<>>

\* The nonce argument of the AES call the state holds.
NonceArg == IF op = "decrypt_data" THEN args.nonce ELSE args.nonce_bytes

\* C7 as claimed: every wrong-length input is answered with the length error
\* of that input, before any decoding or cryptographic step, whatever the
\* other arguments are.
C7_EachInputItsOwnError ==
    /\ (/\ op \in {"encrypt_data", "encrypt_data_with_nonce", "decrypt_data"}
        /\ Len(args.key_bytes) # AesKeyLen) => FailsAtOnce(KeyLengthError)
    /\ (/\ op \in {"encrypt_data_with_nonce", "decrypt_data"}
        /\ Len(NonceArg) # AesNonceLen) => FailsAtOnce(NonceLengthError)
    /\ (op = "encapsulate_kyber"
        /\ Len(args.pk_bytes) # KYBER_PUBLICKEYBYTES) =>
          FailsAtOnce(PkLengthError(KYBER_PUBLICKEYBYTES, args.pk_bytes))
    /\ (op = "decapsulate_kyber"
        /\ Len(args.ct_bytes) # KYBER_CIPHERTEXTBYTES) =>
          FailsAtOnce(CtLengthError(KYBER_CIPHERTEXTBYTES, args.ct_bytes))
    /\ (op = "decapsulate_kyber"
        /\ Len(args.sk_bytes) # KYBER_SECRETKEYBYTES) =>
          FailsAtOnce(SkLengthError(KYBER_SECRETKEYBYTES, args.sk_bytes))
    /\ (op = "sign_falcon" /\ Len(args.sk_bytes) # FALCON_SECRETKEYBYTES) =>
          FailsAtOnce(SkLengthError(FALCON_SECRETKEYBYTES, args.sk_bytes))
    /\ (op = "verify_falcon" /\ Len(args.pk_bytes) # FALCON_PUBLICKEYBYTES) =>
          FailsAtOnce(PkLengthError(FALCON_PUBLICKEYBYTES, args.pk_bytes))

\* C7 as amended: a call with a wrong-length input fails before any decoding
\* or cryptographic step with the length error of the first wrong-length
\* input in the order the function checks them: the key before the nonce, the
\* KEM ciphertext before the KEM secret key.
C7_FirstBadInputError ==
    /\ (/\ op \in {"encrypt_data", "encrypt_data_with_nonce", "decrypt_data"}
        /\ Len(args.key_bytes) # AesKeyLen) => FailsAtOnce(KeyLengthError)
    /\ (/\ op \in {"encrypt_data_with_nonce", "decrypt_data"}
        /\ Len(args.key_bytes) = AesKeyLen
        /\ Len(NonceArg) # AesNonceLen) => FailsAtOnce(NonceLengthError)
    /\ (op = "encapsulate_kyber"
        /\ Len(args.pk_bytes) # KYBER_PUBLICKEYBYTES) =>
          FailsAtOnce(PkLengthError(KYBER_PUBLICKEYBYTES, args.pk_bytes))
    /\ (op = "decapsulate_kyber"
        /\ Len(args.ct_bytes) # KYBER_CIPHERTEXTBYTES) =>
          FailsAtOnce(CtLengthError(KYBER_CIPHERTEXTBYTES, args.ct_bytes))
    /\ (/\ op = "decapsulate_kyber"
        /\ Len(args.ct_bytes) = KYBER_CIPHERTEXTBYTES
        /\ Len(args.sk_bytes) # KYBER_SECRETKEYBYTES) =>
          FailsAtOnce(SkLengthError(KYBER_SECRETKEYBYTES, args.sk_bytes))
    /\ (op = "sign_falcon" /\ Len(args.sk_bytes) # FALCON_SECRETKEYBYTES) =>
          FailsAtOnce(SkLengthError(FALCON_SECRETKEYBYTES, args.sk_bytes))
    /\ (op = "verify_falcon" /\ Len(args.pk_bytes) # FALCON_PUBLICKEYBYTES) =>
          FailsAtOnce(PkLengthError(FALCON_PUBLICKEYBYTES, args.pk_bytes))

\* Key and nonce both one byte short: the key's error is returned.
C7_Witness ==
    /\ op = "decrypt_data"
    /\ Len(args.key_bytes) = AesKeyLen - 1
    /\ Len(args.nonce) = AesNonceLen - 1
    /\ FailsAtOnce(KeyLengthError)

\* C8: with a 1793-byte public key that decodes and a signed message that
\* decodes, verify_falcon returns no error, and returns true exactly when the
\* signed message opens under the key to the supplied message; an error comes
\* only from a wrong-length or undecodable key or an undecodable signed
\* message.  A message signed under the key verifies, and another message
\* against that signed message does not.
C8_FalseIsNotAnError ==
    op = "verify_falcon" =>
        LET decodes == /\ Len(args.pk_bytes) = FALCON_PUBLICKEYBYTES
                       /\ args.accepts_pk
                       /\ args.accepts_sm
            opened == FalconOpen(args.sig_bytes, args.pk_bytes)
        IN /\ decodes =>
                /\ ret.tag = "Ok"
                /\ ret.val = (opened.ok /\ opened.val = args.msg)
           /\ ret.tag = "Err" => ~decodes
           /\ \A m \in Messages, s \in Seeds :
                (/\ decodes
                 /\ args.pk_bytes = FalconKeypair(s)[1]
                 /\ args.sig_bytes = sign_falcon(m, FalconKeypair(s)[2],
                                                 TRUE).val)
                => ret.val = (args.msg = m)

\* The signed message opens under the key, to another message: false.
C8_Witness ==
    /\ op = "verify_falcon"
    /\ ret.tag = "Ok"
    /\ ret.val = FALSE
    /\ FalconOpen(args.sig_bytes, args.pk_bytes).ok

====
